---- MODULE Spec2Model ----
(***************************************************************************)
(* AEC-2: the location-resolution pipeline of the App coordinator          *)
(* (address selection -> view/marker update -> two-stage parcel lookup),   *)
(* the MapboxMap renderer's view/marker handling, and the AiCopilotPanel   *)
(* conversation session.                                                   *)
(*                                                                         *)
(* JavaScript values are modelled as records.  null is the record Null.    *)
(* Zoom levels are kept in tenths (3.5 is 35, 18 is 180) to stay integer.  *)
(* Text is a sequence of tokens, whitespace tokens apart, so that trim()    *)
(* and join() are computed.                                                *)
(***************************************************************************)
EXTENDS Integers, Sequences, FiniteSets, TLC

VARIABLES
    mapViewState,       \* App: useState({longitude, latitude, zoom})
    markerPosition,     \* App: useState(null)
    propertyGeoJson,    \* App: useState(null)
    reqs,               \* the fetchPropertyBoundary invocations, in start order
    internalViewState,  \* MapboxMap: useState({...})
    clickedMarker,      \* MapboxMap: useState(null)
    pendingMove,        \* a move event emitted by the map, handleMove not yet run
    raceRecenter,       \* history: a recenter applied while a move event was pending
    aiPrompt,           \* AiCopilotPanel: useState("")
    aiConversation,     \* AiCopilotPanel: useState([])
    aiStatus,           \* AiCopilotPanel: useState("idle")
    aiError,            \* AiCopilotPanel: useState(null)
    apiKey,             \* OPENAI_API_KEY is set (a build-time constant)
    outstanding,        \* openai.responses.create calls awaiting their result
    issued              \* every compiledInput handed to openai.responses.create

mapVars == <<mapViewState, markerPosition, propertyGeoJson, reqs,
             internalViewState, clickedMarker, pendingMove, raceRecenter>>
chatVars == <<aiPrompt, aiConversation, aiStatus, aiError, apiKey, outstanding, issued>>
vars == <<mapViewState, markerPosition, propertyGeoJson, reqs,
          internalViewState, clickedMarker, pendingMove, raceRecenter,
          aiPrompt, aiConversation, aiStatus, aiError, apiKey, outstanding, issued>>

----------------------------------------------------------------------------
(* Bounds of the model *)

\* fetchPropertyBoundary invocations in one behaviour
MaxRequests == 2
\* distinct geocoded points an address selection or a click can carry
NumPoints == 2
\* features the parcel-geometry service returns at most
MaxFeatures == 2
\* distinct view states a user gesture can produce
NumGestures == 2

----------------------------------------------------------------------------
(* Values *)

Null == [type |-> "null"]

\* zoom: 18 in onPlaceSelected, in tenths
RecenterZoom == 180

InitialViewState == [longitude |-> -100, latitude |-> 40, zoom |-> 35]

Point(i) == [longitude |-> -(73 + i), latitude |-> 40 + i]
Points == {Point(i) : i \in 1..NumPoints}

\* place.geometry?.location is present or not
Places == {[location |-> Null]} \cup {[location |-> p] : p \in Points}

GestureViews == {[longitude |-> -(80 + k), latitude |-> 30 + k, zoom |-> 100 + k] :
                    k \in 1..NumGestures}

\* parcel identifiers (borough-block-lot): the lot each point lies in
BblNames == <<"1000010001", "1000010002", "1000010003", "1000010004">>
ParcelAt(p) == BblNames[CHOOSE i \in 1..NumPoints : Point(i) = p]
Bbls == {ParcelAt(p) : p \in Points}
\* feature.properties.addendum.pad.bbl of a pad record without a bbl entry
Undefined == "undefined"
NoBbl == ""

\* One value per way a fetch(...) followed by response.json() can end.
Rejected == [kind |-> "reject"]
NotOk == [kind |-> "http", ok |-> FALSE]
BadJson == [kind |-> "http", ok |-> TRUE, parses |-> FALSE]
Ok(data) == [kind |-> "http", ok |-> TRUE, parses |-> TRUE, data |-> data]

\* Bodies of the point-to-parcel service for a point (size=1: zero or one
\* feature); a match may lack the addendum.pad record, or the pad its bbl.
ReverseBodies(p) ==
    {[type |-> "FeatureCollection"],
     [type |-> "FeatureCollection", features |-> <<>>],
     [type |-> "FeatureCollection", features |-> <<[properties |-> [name |-> "x"]]>>],
     [type |-> "FeatureCollection",
      features |-> <<[properties |-> [addendum |-> [pad |-> [version |-> "x"]]]]>>],
     [type |-> "FeatureCollection",
      features |-> <<[properties |-> [addendum |-> [pad |-> [bbl |-> ParcelAt(p)]]]]>>]}

ReverseResponses(p) == {Rejected, NotOk, BadJson} \cup {Ok(d) : d \in ReverseBodies(p)}

\* an attribute of a feature: Object.entries yields [key, value]; t is typeof value
Attr(key, t, v) == [key |-> key, value |-> [t |-> t, v |-> v]]

\* a MapPLUTO feature; properties is the ordered list of Object.entries
\* (outFields=*: scalar attributes with null and object values among them)
LotFeature(bbl) ==
    [type |-> "Feature", geometry |-> [type |-> "Polygon"],
     properties |-> <<Attr("BBL", "string", bbl),
                      Attr("ZoneDist2", "object", "null"),
                      Attr("BldgClass", "string", "R4"),
                      Attr("LotArea", "number", "2500"),
                      Attr("Landmark", "object", "null"),
                      Attr("Address", "string", "1 Main St"),
                      Attr("NumFloors", "number", "3"),
                      Attr("YearBuilt", "number", "1931"),
                      Attr("OwnerName", "string", "ACME"),
                      Attr("ZipCode", "number", "10001")>>]

\* the k-th feature of a lot answer: further rows of the same lot differ
\* from the first in geometry and attributes
LotFeatureAt(bbl, k) ==
    IF k = 1 THEN LotFeature(bbl)
    ELSE [type |-> "Feature", geometry |-> [type |-> "MultiPolygon"],
          properties |-> <<Attr("BBL", "string", bbl), Attr("CondoNo", "number", "7")>>]

\* Bodies of the parcel-geometry service for where=BBL='<bbl>': the features
\* of that lot.  No lot has the identifier 'undefined'.
LotBodies(bbl) ==
    {[error |-> "400"]}
    \cup {[type |-> "FeatureCollection", features |-> [k \in 1..n |-> LotFeatureAt(bbl, k)]] :
            n \in 0..(IF bbl \in Bbls THEN MaxFeatures ELSE 0)}

LotResponses(bbl) == {Rejected, NotOk, BadJson} \cup {Ok(d) : d \in LotBodies(bbl)}

\* setPropertyGeoJson was not called
NoCall == [type |-> "nocall"]

----------------------------------------------------------------------------
(* App: fetchLotGeometry and fetchPropertyBoundary as functions of the     *)
(* response they receive.  An effect is what the invocation does next:     *)
(*   set     the argument of setPropertyGeoJson, or NoCall                 *)
(*   stage   "done" (the async function resolves), "lot" (it awaits        *)
(*           fetchLotGeometry) or "rejected" (its promise rejects)         *)
(*   bbl     the identifier handed to fetchLotGeometry                     *)
(*   outcome which branch ran                                              *)
(***************************************************************************)

Effect(set, stage, bbl, outcome) ==
    [set |-> set, stage |-> stage, bbl |-> bbl, outcome |-> outcome]

\* data.features && data.features.length > 0
HasFeatures(data) == "features" \in DOMAIN data /\ Len(data.features) > 0

\* mutant of CatchLot: the catch block only logs
CatchLotLogsOnly(bbl) == Effect(NoCall, "done", bbl, "threw2")

\* the catch blocks: console.error(...); setPropertyGeoJson(null)
CatchLot(bbl) == Effect(Null, "done", bbl, "threw2")
CatchBoundary == Effect(Null, "done", NoBbl, "threw1")

\* mutant of fetchLotGeometry: `if (data.features)` without the length test
fetchLotGeometryNoLengthTest(bbl, response) ==
    IF response.kind = "reject" THEN CatchLot(bbl)
    ELSE IF response.ok
    THEN IF ~response.parses THEN CatchLot(bbl)
         ELSE IF "features" \in DOMAIN response.data
              THEN Effect(response.data, "done", bbl, "geometry")
              ELSE Effect(Null, "done", bbl, "noFeatures")
    ELSE Effect(NoCall, "done", bbl, "notOk2")

\* variant: every parsed body is stored
fetchLotGeometryStoresBody(bbl, response) ==
    IF response.kind = "reject" THEN CatchLot(bbl)
    ELSE IF response.ok
    THEN IF ~response.parses THEN CatchLot(bbl)
         ELSE Effect(response.data, "done", bbl, "geometry")
    ELSE Effect(NoCall, "done", bbl, "notOk2")

fetchLotGeometry(bbl, response) ==
    IF response.kind = "reject" THEN CatchLot(bbl)
    ELSE IF response.ok
    THEN IF ~response.parses THEN CatchLot(bbl)
         ELSE IF HasFeatures(response.data)
              THEN Effect(response.data, "done", bbl, "geometry")
              ELSE Effect(Null, "done", bbl, "noFeatures")
    ELSE Effect(NoCall, "done", bbl, "notOk2")

\* feature.properties && feature.properties.addendum && feature.properties.addendum.pad
HasPad(feature) ==
    /\ "properties" \in DOMAIN feature
    /\ "addendum" \in DOMAIN feature.properties
    /\ "pad" \in DOMAIN feature.properties.addendum

\* feature.properties.addendum.pad.bbl
PadBbl(feature) ==
    IF "bbl" \in DOMAIN feature.properties.addendum.pad
    THEN feature.properties.addendum.pad.bbl
    ELSE Undefined

fetchPropertyBoundary(response) ==
    IF response.kind = "reject" THEN CatchBoundary
    ELSE IF response.ok
    THEN IF ~response.parses THEN CatchBoundary
         ELSE IF HasFeatures(response.data)
              THEN LET feature == response.data.features[1] IN
                   IF HasPad(feature)
                   THEN Effect(NoCall, "lot", PadBbl(feature), "pending")
                   ELSE Effect(Null, "done", NoBbl, "noPad")
              ELSE Effect(Null, "done", NoBbl, "noMatch")
    ELSE Effect(NoCall, "done", NoBbl, "notOk1")

----------------------------------------------------------------------------
(* Resolution bookkeeping *)

NewRequest(p) ==
    [point |-> p, stage |-> "reverse", bbl |-> NoBbl, outcome |-> "pending",
     set |-> NoCall, doneAt |-> 0]

NumDone(rs) == Cardinality({i \in 1..Len(rs) : rs[i].stage \in {"done", "rejected"}})

\* the request record after the invocation took the effect e
Apply(r, e, rank) ==
    [point |-> r.point, stage |-> e.stage, bbl |-> e.bbl, outcome |-> e.outcome,
     set |-> e.set,
     doneAt |-> IF e.stage \in {"done", "rejected"} THEN rank ELSE 0]

\* setPropertyGeoJson(e.set) when the effect calls it
Publish(e) == IF e.set = NoCall THEN propertyGeoJson ELSE e.set

----------------------------------------------------------------------------
(* Initial state *)

InitMap ==
    /\ mapViewState = InitialViewState
    /\ markerPosition = Null
    /\ propertyGeoJson = Null
    /\ reqs = <<>>
    /\ internalViewState = InitialViewState
    /\ clickedMarker = Null
    /\ pendingMove = Null
    /\ raceRecenter = Null

InitChat ==
    /\ aiPrompt = <<>>
    /\ aiConversation = <<>>
    /\ aiStatus = "idle"
    /\ aiError = Null
    /\ outstanding = <<>>
    /\ issued = <<>>

\* the App with its map; the assistant key is configured
Init == InitMap /\ InitChat /\ apiKey = TRUE

----------------------------------------------------------------------------
(* App actions *)

\* variant: the selection sets the zoom and keeps the centre
zoomedView(lng, lat) == [mapViewState EXCEPT !.zoom = RecenterZoom]

\* the argument of setMapViewState in onPlaceSelected
recenteredView(lng, lat) == [longitude |-> lng, latitude |-> lat, zoom |-> RecenterZoom]

\* usePlacesWidget onPlaceSelected(place); the re-render runs MapboxMap's
\* useEffect([viewState]), which copies the new viewState to internalViewState.
onPlaceSelected(place) ==
    /\ IF place.location # Null
       THEN /\ Len(reqs) < MaxRequests
            /\ LET lat == place.location.latitude
                   lng == place.location.longitude
                   view == recenteredView(lng, lat)
               IN /\ mapViewState' = view
                  /\ internalViewState' = view
                  /\ markerPosition' = [longitude |-> lng, latitude |-> lat]
                  /\ reqs' = Append(reqs, NewRequest([longitude |-> lng, latitude |-> lat]))
                  /\ raceRecenter' = IF pendingMove # Null
                                     THEN [view |-> view, gestureDone |-> FALSE]
                                     ELSE Null
            /\ UNCHANGED <<propertyGeoJson, clickedMarker, pendingMove>>
       ELSE UNCHANGED mapVars
    /\ UNCHANGED chatVars

\* the stage-1 fetch of invocation i settles and fetchPropertyBoundary runs on
\* to its next await or to its end
ReverseResponse(i, response) ==
    /\ reqs[i].stage = "reverse"
    /\ LET e == fetchPropertyBoundary(response) IN
       /\ reqs' = [reqs EXCEPT ![i] = Apply(reqs[i], e, NumDone(reqs) + 1)]
       /\ propertyGeoJson' = Publish(e)
    /\ UNCHANGED <<mapViewState, markerPosition, internalViewState, clickedMarker,
                   pendingMove, raceRecenter>>
    /\ UNCHANGED chatVars

\* the stage-2 fetch of invocation i settles; fetchLotGeometry finishes and
\* with it fetchPropertyBoundary
LotResponse(i, response) ==
    /\ reqs[i].stage = "lot"
    /\ LET e == fetchLotGeometry(reqs[i].bbl, response) IN
       /\ reqs' = [reqs EXCEPT ![i] = Apply(reqs[i], e, NumDone(reqs) + 1)]
       /\ propertyGeoJson' = Publish(e)
    /\ UNCHANGED <<mapViewState, markerPosition, internalViewState, clickedMarker,
                   pendingMove, raceRecenter>>
    /\ UNCHANGED chatVars

----------------------------------------------------------------------------
(* MapboxMap *)

\* const currentViewState = viewState || internalViewState (App always passes viewState)
currentViewState == mapViewState

\* const displayMarker = externalMarkerPosition || clickedMarker
displayMarker == IF markerPosition # Null THEN markerPosition ELSE clickedMarker

\* the map emits a move event for a pan/zoom gesture (or its inertia)
UserGesture(view) ==
    /\ pendingMove = Null
    /\ pendingMove' = view
    /\ UNCHANGED <<mapViewState, markerPosition, propertyGeoJson, reqs,
                   internalViewState, clickedMarker, raceRecenter>>
    /\ UNCHANGED chatVars

\* variant: the renderer is used without an onMove callback
onMoveAbsent(newViewState) == mapViewState

\* onMove?.(newViewState), where onMove is App's setMapViewState: the next
\* mapViewState
onMove(newViewState) == newViewState

\* handleMove(evt): setInternalViewState(newViewState); onMove?.(newViewState)
handleMove ==
    /\ pendingMove # Null
    /\ LET newViewState == [longitude |-> pendingMove.longitude,
                            latitude |-> pendingMove.latitude,
                            zoom |-> pendingMove.zoom]
       IN /\ internalViewState' = newViewState
          /\ mapViewState' = onMove(newViewState)
    /\ pendingMove' = Null
    /\ raceRecenter' = IF raceRecenter # Null /\ ~raceRecenter.gestureDone
                       THEN [raceRecenter EXCEPT !.gestureDone = TRUE]
                       ELSE Null
    /\ UNCHANGED <<markerPosition, propertyGeoJson, reqs, clickedMarker>>
    /\ UNCHANGED chatVars

\* handleMapClick(event): setClickedMarker({longitude, latitude})
handleMapClick(lngLat) ==
    /\ clickedMarker' = [longitude |-> lngLat.longitude, latitude |-> lngLat.latitude]
    /\ UNCHANGED <<mapViewState, markerPosition, propertyGeoJson, reqs,
                   internalViewState, pendingMove, raceRecenter>>
    /\ UNCHANGED chatVars

----------------------------------------------------------------------------
(* AiCopilotPanel: text *)

\* Text is a sequence of tokens: [s |-> string] for a run of characters,
\* [n |-> number, digits |-> d] for number.toFixed(d).
Str(x) == [s |-> x]
T(x) == <<Str(x)>>
ToFixed(x, d) == [n |-> x, digits |-> d]

IsSpace(t) == "s" \in DOMAIN t /\ t.s \in {" ", "\n"}

RECURSIVE TrimStart(_)
TrimStart(text) ==
    IF text # <<>> /\ IsSpace(Head(text)) THEN TrimStart(Tail(text)) ELSE text

RECURSIVE TrimEnd(_)
TrimEnd(text) ==
    IF text # <<>> /\ IsSpace(text[Len(text)])
    THEN TrimEnd(SubSeq(text, 1, Len(text) - 1))
    ELSE text

\* String.prototype.trim
Trim(text) == TrimEnd(TrimStart(text))

\* Array.prototype.join
RECURSIVE Join(_, _)
Join(texts, sep) ==
    IF texts = <<>> THEN <<>>
    ELSE IF Len(texts) = 1 THEN texts[1]
    ELSE texts[1] \o sep \o Join(Tail(texts), sep)

\* Array.prototype.slice(-n)
SliceLast(seq, n) == SubSeq(seq, IF Len(seq) > n THEN Len(seq) - n + 1 ELSE 1, Len(seq))
\* Array.prototype.slice(0, n)
SliceFirst(seq, n) == SubSeq(seq, 1, IF Len(seq) > n THEN n ELSE Len(seq))

SYSTEM_PROMPT == T("You are the Vienna Building Development Assistant embedded in AEC-2. ...")

AI_SUGGESTIONS ==
    <<T("Can I add more floors to this building?"),
      T("What are the zoning restrictions?"),
      T("How do I get development permits?"),
      T("What's the maximum building height allowed?")>>

\* aiConversation.slice(-6)
HistoryWindow == 6
\* .slice(0, 6) of the scalar attributes
MaxHighlights == 6
\* toFixed(6)
CoordDigits == 6

\* aiError is null or an error message
ErrorMessage(text) == [message |-> text]

EmptyPromptError == ErrorMessage(T("Please enter a prompt."))
MissingKeyError ==
    ErrorMessage(T("Missing OpenAI API key. Add VITE_OPENAI_API_KEY to your .env file."))
UnknownError == ErrorMessage(T("Unknown error while querying OpenAI."))
FallbackText == T("PropAI did not return any content. Try asking again.")

----------------------------------------------------------------------------
(* AiCopilotPanel: propertyContextSummary (useMemo) *)

\* Object.entries(props) filtered to string and number values, first 6,
\* rendered `${key}: ${value}`
RECURSIVE Highlights(_)
Highlights(entries) ==
    IF entries = <<>> THEN <<>>
    ELSE (IF Head(entries).value.t \in {"string", "number"}
          THEN <<T(Head(entries).key) \o T(": ") \o T(Head(entries).value.v)>>
          ELSE <<>>) \o Highlights(Tail(entries))

\* variant: the first 6 attributes are taken, then the scalar ones of them
propertyHighlightsOfFirstSix(props) == Highlights(SliceFirst(props, MaxHighlights))

\* .filter(string or number).slice(0, 6).map(...)
propertyHighlights(props) == SliceFirst(Highlights(props), MaxHighlights)

\* variant: the pieces are joined whether there are any or not
joinContextPiecesAlways(contextPieces) == Join(contextPieces, T("\n"))

\* return contextPieces.length ? contextPieces.join("\n") : null
joinContextPieces(contextPieces) ==
    IF Len(contextPieces) > 0 THEN Join(contextPieces, T("\n")) ELSE Null

propertyContextSummary(marker, geoJson) ==
    LET markerPieces ==
            IF marker # Null
            THEN <<T("Marker coordinates: latitude ")
                   \o <<ToFixed(marker.latitude, CoordDigits)>>
                   \o T(", longitude ")
                   \o <<ToFixed(marker.longitude, CoordDigits)>> \o T(".")>>
            ELSE <<>>
        hasFeatures == geoJson # Null /\ "features" \in DOMAIN geoJson
                       /\ Len(geoJson.features) > 0
        geoPieces ==
            IF hasFeatures
            THEN LET firstFeature == geoJson.features[1]
                     props == IF "properties" \in DOMAIN firstFeature
                              THEN firstFeature.properties ELSE <<>>
                     geomType == IF "geometry" \in DOMAIN firstFeature
                                    /\ "type" \in DOMAIN firstFeature.geometry
                                 THEN firstFeature.geometry.type ELSE "unknown"
                     highlights == propertyHighlights(props)
                 IN <<T("Property geometry type: ") \o T(geomType) \o T("."),
                      T("Feature count: ")
                        \o <<ToFixed(Len(geoJson.features), 0)>> \o T(".")>>
                    \o (IF Len(highlights) > 0
                        THEN <<T("Key parcel data -> ") \o Join(highlights, T(", "))>>
                        ELSE <<>>)
            ELSE <<>>
        contextPieces == markerPieces \o geoPieces
    IN joinContextPieces(contextPieces)

----------------------------------------------------------------------------
(* AiCopilotPanel: the assistant backend and response extraction *)

Message(role, content) == [role |-> role, content |-> content]

\* variant: the new turn is put in front of the earlier ones
prependTurn(prev, message) == <<message>> \o prev

\* setAiConversation((prev) => [...prev, message])
appendTurn(prev, message) == Append(prev, message)

\* what openai.responses.create can settle with: a rejection with an Error,
\* a rejection with another value, or a response object
OutputItem(text) == [type |-> "output_text", text |-> T(text)]

Responses ==
    {[output |-> <<>>],
     [id |-> "resp"],
     [output |-> <<>>, output_text |-> <<T("legacy")>>],
     [output |-> <<[type |-> "reasoning"], [content |-> <<OutputItem("answer")>>]>>],
     [output |-> <<[content |-> <<OutputItem("answer"), OutputItem(" "), OutputItem("more")>>]>>],
     [output |-> <<[content |-> <<OutputItem(" "), [type |-> "output_text"]>>]>>],
     [output |-> <<[content |-> <<[type |-> "refusal", text |-> T("no")]>>]>>]}

Settlements ==
    {[kind |-> "error", message |-> T("Request failed")], [kind |-> "thrown"]}
    \cup {[kind |-> "response", response |-> r] : r \in Responses}

\* content.filter(type === "output_text").map(content?.text ?? "")
RECURSIVE ItemTexts(_)
ItemTexts(items) ==
    IF items = <<>> THEN <<>>
    ELSE (IF "type" \in DOMAIN Head(items) /\ Head(items).type = "output_text"
          THEN <<IF "text" \in DOMAIN Head(items) THEN Head(items).text ELSE <<>>>>
          ELSE <<>>) \o ItemTexts(Tail(items))

\* response.output.flatMap(segment => Array.isArray(segment?.content) ? ... : [])
RECURSIVE SegmentTexts(_)
SegmentTexts(segments) ==
    IF segments = <<>> THEN <<>>
    ELSE (IF "content" \in DOMAIN Head(segments)
          THEN ItemTexts(Head(segments).content) ELSE <<>>) \o SegmentTexts(Tail(segments))

\* variant: the extracted text is stored as it is
extractedTextAsIs(text) == text

\* ... || "PropAI did not return any content. Try asking again."
orFallback(text) == IF text # <<>> THEN text ELSE FallbackText

assistantText(response) ==
    LET outputSegments == IF "output" \in DOMAIN response
                          THEN SegmentTexts(response.output) ELSE <<>>
        joined == Trim(Join(outputSegments, T("\n")))
        legacy == IF "output_text" \in DOMAIN response
                  THEN Trim(Join(response.output_text, T("\n"))) ELSE <<>>
    IN orFallback(IF joined # <<>> THEN joined ELSE legacy)

----------------------------------------------------------------------------
(* AiCopilotPanel: handlers *)

\* accepted sends in one behaviour
MaxSends == 2

\* what the user can type into the prompt textarea
PromptTexts == {<<>>, T(" "), T(" ") \o T("q1") \o T("\n")}

\* mutant of TextareaDisabled: the textarea stays editable while loading
TextareaNeverDisabled == FALSE

\* Textarea disabled={aiStatus === "loading"}
TextareaDisabled == aiStatus = "loading"
\* suggestion buttons: rendered while the conversation is empty, disabled while loading
SuggestionsDisabled == Len(aiConversation) # 0 \/ aiStatus = "loading"
\* "Ask PropAI": disabled={!aiPrompt.trim() || aiStatus === "loading" || !OPENAI_API_KEY}
AskDisabled == Trim(aiPrompt) = <<>> \/ aiStatus = "loading" \/ ~apiKey
\* variant: Clear is disabled with nothing to clear only
ClearDisabledWhenEmpty == Len(aiConversation) = 0 /\ aiPrompt = <<>>
\* "Clear": disabled={(aiConversation.length === 0 && !aiPrompt) || aiStatus === "loading"}
ClearDisabled == (Len(aiConversation) = 0 /\ aiPrompt = <<>>) \/ aiStatus = "loading"

\* onChange={(event) => setAiPrompt(event.target.value)}
TypePrompt(text) ==
    /\ ~TextareaDisabled
    /\ aiPrompt' = text
    /\ UNCHANGED <<aiConversation, aiStatus, aiError, apiKey, outstanding, issued>>
    /\ UNCHANGED mapVars

\* onClick={() => setAiPrompt(suggestion)}
ClickSuggestion(k) ==
    /\ ~SuggestionsDisabled
    /\ aiPrompt' = AI_SUGGESTIONS[k]
    /\ UNCHANGED <<aiConversation, aiStatus, aiError, apiKey, outstanding, issued>>
    /\ UNCHANGED mapVars

\* variant: the prompt is sent without the emptiness test
promptNeverRejected(trimmedPrompt) == FALSE

\* if (!trimmedPrompt)
promptRejected(trimmedPrompt) == trimmedPrompt = <<>>

\* variant: the key is taken to be configured
KeyTakenAsPresent == FALSE

\* if (!OPENAI_API_KEY)
KeyMissing == ~apiKey

\* variant: every turn of the conversation is replayed
recentHistoryUnbounded == aiConversation

\* aiConversation.slice(-6): the closure's aiConversation, the turns before this send
recentHistory == SliceLast(aiConversation, HistoryWindow)

ContextHeader == Str("\n\nContext to consider:\n")

userContentForApi(trimmedPrompt) ==
    LET summary == propertyContextSummary(markerPosition, propertyGeoJson) IN
    IF summary # Null /\ summary # <<>>
    THEN trimmedPrompt \o <<ContextHeader>> \o summary
    ELSE trimmedPrompt

\* variant: the turn is stored with the text sent to the API
newUserMessageAsSent(trimmedPrompt) == Message("user", userContentForApi(trimmedPrompt))

\* const newUserMessage = {role: "user", content: trimmedPrompt}
newUserMessage(trimmedPrompt) == Message("user", trimmedPrompt)

\* the input string handed to openai.responses.create
compiledInput(trimmedPrompt) ==
    LET parts == <<T("System instructions:\n") \o SYSTEM_PROMPT>>
                 \o [k \in 1..Len(recentHistory) |->
                        (IF recentHistory[k].role = "user"
                         THEN T("User") ELSE T("Assistant"))
                        \o T(":\n") \o recentHistory[k].content]
                 \o <<T("User:\n") \o userContentForApi(trimmedPrompt)>>
    IN Join(SelectSeq(parts, LAMBDA part : part # <<>>), T("\n\n"))

\* the form's onSubmit: runOpenAiQuery up to its await.  The handler validates
\* its own preconditions, so it is modelled for every submit event, not only
\* for those the enabled "Ask PropAI" button lets through.
runOpenAiQuery ==
    LET trimmedPrompt == Trim(aiPrompt) IN
    /\ IF promptRejected(trimmedPrompt)
       THEN /\ aiError' = EmptyPromptError
            /\ UNCHANGED <<aiPrompt, aiConversation, aiStatus, outstanding, issued>>
       ELSE IF KeyMissing
       THEN /\ aiError' = MissingKeyError
            /\ UNCHANGED <<aiPrompt, aiConversation, aiStatus, outstanding, issued>>
       ELSE /\ Len(issued) < MaxSends
            /\ aiStatus' = "loading"
            /\ aiError' = Null
            /\ aiConversation' = appendTurn(aiConversation, newUserMessage(trimmedPrompt))
            /\ aiPrompt' = <<>>
            /\ outstanding' = Append(outstanding, compiledInput(trimmedPrompt))
            /\ issued' = Append(issued, compiledInput(trimmedPrompt))
    /\ UNCHANGED apiKey
    /\ UNCHANGED mapVars

\* variant: the catch block only logs
caughtErrorLoggedOnly(settlement) == aiError

\* catch: setAiError(error instanceof Error ? error.message : "Unknown error ...")
caughtError(settlement) ==
    IF settlement.kind = "error" THEN ErrorMessage(settlement.message) ELSE UnknownError

\* variant: the status is reset at the end of the try block only
statusResetInTryOnly(settlement) ==
    IF settlement.kind = "response" THEN "idle" ELSE aiStatus

\* finally: setAiStatus("idle"), after the try block and after the catch block
finallyStatus(settlement) == "idle"

\* the await of call k settles: the rest of the try block, the catch block
\* and the finally block of that runOpenAiQuery invocation
Settle(k, settlement) ==
    /\ k \in 1..Len(outstanding)
    /\ IF settlement.kind = "response"
       THEN /\ aiConversation' =
                  appendTurn(aiConversation,
                             Message("assistant", assistantText(settlement.response)))
            /\ UNCHANGED aiError
       ELSE /\ aiError' = caughtError(settlement)
            /\ UNCHANGED aiConversation
    /\ aiStatus' = finallyStatus(settlement)
    /\ outstanding' = [j \in 1..(Len(outstanding) - 1) |->
                          IF j < k THEN outstanding[j] ELSE outstanding[j + 1]]
    /\ UNCHANGED <<aiPrompt, apiKey, issued>>
    /\ UNCHANGED mapVars

\* a click on the enabled "Ask PropAI" submit button
ClickAsk == ~AskDisabled /\ runOpenAiQuery

\* the Clear button
handleClearConversation ==
    /\ ~ClearDisabled
    /\ aiConversation' = <<>>
    /\ aiPrompt' = <<>>
    /\ aiError' = Null
    /\ UNCHANGED <<aiStatus, apiKey, outstanding, issued>>
    /\ UNCHANGED mapVars

----------------------------------------------------------------------------
(* Specifications *)

NextParcel ==
    \/ \E place \in Places : onPlaceSelected(place)
    \/ \E i \in 1..Len(reqs) : \E response \in ReverseResponses(reqs[i].point) :
            ReverseResponse(i, response)
    \/ \E i \in 1..Len(reqs) : \E response \in LotResponses(reqs[i].bbl) :
            LotResponse(i, response)

NextView ==
    \/ \E place \in Places : onPlaceSelected(place)
    \/ \E view \in GestureViews : UserGesture(view)
    \/ handleMove
    \/ \E lngLat \in Points : handleMapClick(lngLat)

\* the parcel resolver: selections and the two lookup stages
SpecParcel == Init /\ [][NextParcel]_vars

\* view and marker synchronisation: selections, gestures and clicks
SpecView == Init /\ [][NextView]_vars

\* the App at rest after earlier selections: no selection yet, or the marker
\* at the last selected point and the geometry null or one a lookup stored
InitSelected ==
    /\ InitChat /\ apiKey = TRUE
    /\ markerPosition \in {Null} \cup Points
    /\ propertyGeoJson \in
         IF markerPosition = Null THEN {Null}
         ELSE {Null} \cup UNION {{data \in LotBodies(ParcelAt(p)) : HasFeatures(data)} :
                                  p \in Points}
    /\ mapViewState =
         IF markerPosition = Null THEN InitialViewState
         ELSE recenteredView(markerPosition.longitude, markerPosition.latitude)
    /\ internalViewState = mapViewState
    /\ reqs = <<>>
    /\ clickedMarker = Null
    /\ pendingMove = Null
    /\ raceRecenter = Null

\* gestures, clicks and selections on a map that shows a marker and a parcel
SpecViewSelected == InitSelected /\ [][NextView]_vars

\* the props the panel is rendered with: a marker or none, and null or a
\* feature collection (the prop type admits an empty one)
PanelGeometries ==
    {Null} \cup {[type |-> "FeatureCollection",
                  features |-> [k \in 1..n |-> LotFeatureAt(ParcelAt(Point(1)), k)]] :
                    n \in 0..MaxFeatures}

InitPanel ==
    /\ InitChat
    /\ apiKey \in BOOLEAN
    /\ mapViewState = InitialViewState
    /\ markerPosition \in {Null, Point(1)}
    /\ propertyGeoJson \in PanelGeometries
    /\ reqs = <<>>
    /\ internalViewState = InitialViewState
    /\ clickedMarker = Null
    /\ pendingMove = Null
    /\ raceRecenter = Null

NextChat ==
    \/ \E text \in PromptTexts : TypePrompt(text)
    \/ \E k \in 1..Len(AI_SUGGESTIONS) : ClickSuggestion(k)
    \/ runOpenAiQuery
    \/ ClickAsk
    \/ \E k \in 1..Len(outstanding) : \E settlement \in Settlements : Settle(k, settlement)
    \/ handleClearConversation

\* the conversation session of the AiCopilotPanel
SpecChat == InitPanel /\ [][NextChat]_vars

\* the same session when every request completes: the promise of
\* openai.responses.create settles, and its continuation is then run by the
\* event loop
SettleSome == \E k \in 1..Len(outstanding) : \E settlement \in Settlements : Settle(k, settlement)
SpecChatFair == SpecChat /\ WF_vars(SettleSome)

\* sends completed before the sends of a behaviour of SpecHistory
MaxEarlierSends == 4

HistoryPrompts == {T("q1"), T(" ") \o T("q2")}
HistorySettlements ==
    {[kind |-> "error", message |-> T("Request failed")],
     [kind |-> "response",
      response |-> [output |-> <<[content |-> <<OutputItem("answer")>>]>>]]}

\* what one completed send left in the conversation: its user turn, and the
\* assistant turn when its request was answered
TurnsOfSend ==
    {<<newUserMessage(Trim(text))>> : text \in HistoryPrompts}
    \cup {<<newUserMessage(Trim(text)), Message("assistant", assistantText(st.response))>> :
            text \in HistoryPrompts,
            st \in {st \in HistorySettlements : st.kind = "response"}}

\* the conversations n completed sends can leave
RECURSIVE ConversationsAfter(_)
ConversationsAfter(n) ==
    IF n = 0 THEN {<<>>}
    ELSE {conversation \o turns :
            conversation \in ConversationsAfter(n - 1), turns \in TurnsOfSend}

\* the panel with a conversation under way and no request outstanding
InitHistory ==
    /\ aiPrompt = <<>>
    /\ aiConversation \in UNION {ConversationsAfter(n) : n \in 0..MaxEarlierSends}
    /\ aiStatus = "idle"
    /\ aiError = Null
    /\ outstanding = <<>>
    /\ issued = <<>>
    /\ apiKey = TRUE
    /\ mapViewState = InitialViewState
    /\ markerPosition = Point(1)
    /\ propertyGeoJson = Null
    /\ reqs = <<>>
    /\ internalViewState = InitialViewState
    /\ clickedMarker = Null
    /\ pendingMove = Null
    /\ raceRecenter = Null

NextHistory ==
    \/ \E text \in HistoryPrompts : TypePrompt(text)
    \/ runOpenAiQuery
    \/ \E k \in 1..Len(outstanding) : \E settlement \in HistorySettlements :
            Settle(k, settlement)

\* the requests built from conversations of up to 2 * MaxEarlierSends turns
SpecHistory == InitHistory /\ [][NextHistory]_vars

----------------------------------------------------------------------------
(* Parcel resolver properties (SpecParcel) *)

Latest == Len(reqs)
Settled(r) == r.stage \in {"done", "rejected"}
\* the step in which invocation i of fetchPropertyBoundary finishes
Finishes(i) == ~Settled(reqs[i]) /\ Settled(reqs'[i])
\* the not-found and caught-error endings of a resolution
Negative == {"noMatch", "noPad", "noFeatures", "threw1", "threw2"}
\* stage-2 geometry requests issued so far
LotFetches(rs) == Cardinality({i \in 1..Len(rs) : rs[i].bbl # NoBbl})

\* C1: when resolution N+1 was started before N completed and N's geometry
\* arrives after N+1 has completed, the geometry state is the outcome of N+1
\* once both are complete.
C1_StaleResultDiscarded ==
    \A i \in 1..(Len(reqs) - 1) :
        ( /\ i + 1 = Latest
          /\ Settled(reqs[i]) /\ Settled(reqs[i + 1])
          /\ reqs[i].doneAt > reqs[i + 1].doneAt
          /\ reqs[i].outcome = "geometry"
          /\ reqs[i + 1].set # NoCall )
        => propertyGeoJson = reqs[i + 1].set

\* C2: an older resolution that ends in not-found or in a caught error while
\* a newer one is pending or has produced a geometry leaves the geometry
\* state as it is.
C2_StaleNegativeKeepsState ==
    [][\A i \in 1..Len(reqs) :
        ( /\ Finishes(i)
          /\ reqs'[i].outcome \in Negative
          /\ \E j \in (i + 1)..Len(reqs) :
                ~Settled(reqs[j]) \/ reqs[j].outcome = "geometry" )
        => propertyGeoJson' = propertyGeoJson]_vars

\* C4: a non-success HTTP response at either stage of the latest resolution
\* clears the geometry state to null.
C4_NotOkClearsGeometry ==
    [][\A i \in 1..Len(reqs) :
        ( /\ i = Latest
          /\ Finishes(i)
          /\ reqs'[i].outcome \in {"notOk1", "notOk2"} )
        => propertyGeoJson' = Null]_vars

\* the responses with which fetch rejects or response.json() throws
Throwing == {Rejected, BadJson}

\* C5: an error thrown at either lookup stage is caught: the invocation
\* resolves (no rejection reaches the caller), the geometry state becomes
\* null, and nothing of the failed lookup is stored.
C5_ThrownErrorIsCaught ==
    [][\A i \in 1..Len(reqs) : \A response \in Throwing :
        (ReverseResponse(i, response) \/ LotResponse(i, response))
        => /\ reqs'[i].stage = "done"
           /\ reqs'[i].set = Null
           /\ propertyGeoJson' = Null]_vars

\* C5 witness: a stage-2 error ended a resolution and cleared a geometry that
\* an earlier resolution had stored.
C5_Witness ==
    \E i, j \in 1..Len(reqs) :
        /\ reqs[i].outcome = "threw2" /\ reqs[i].stage = "done"
        /\ reqs[j].outcome = "geometry" /\ reqs[j].doneAt < reqs[i].doneAt
        /\ propertyGeoJson = Null

\* the stage-1 bodies with zero matches, or whose first match carries no
\* parcel identifier (no addendum.pad record, or a pad record without bbl)
NoIdentifier(data) ==
    \/ ~HasFeatures(data)
    \/ ~HasPad(data.features[1])
    \/ "bbl" \notin DOMAIN data.features[1].properties.addendum.pad

\* C6: a stage-1 answer with zero matches or with no identifier ends the
\* resolution in not-found and issues no stage-2 request.
C6_StageOneShortCircuit ==
    [][\A i \in 1..Len(reqs) : \A response \in ReverseResponses(reqs[i].point) :
        ( /\ ReverseResponse(i, response)
          /\ response.kind = "http" /\ response.ok /\ response.parses
          /\ NoIdentifier(response.data) )
        => /\ reqs'[i].stage = "done"
           /\ propertyGeoJson' = Null
           /\ LotFetches(reqs') = LotFetches(reqs)]_vars

\* C7: a successful stage-2 answer with zero features ends the resolution in
\* not-found (geometry null, the invocation resolves); with one or more
\* features the geometry state is exactly the returned feature collection.
C7_StageTwoResult ==
    [][\A i \in 1..Len(reqs) : \A response \in LotResponses(reqs[i].bbl) :
        ( /\ LotResponse(i, response)
          /\ response.kind = "http" /\ response.ok /\ response.parses )
        => /\ reqs'[i].stage = "done"
           /\ IF "features" \in DOMAIN response.data /\ Len(response.data.features) >= 1
              THEN propertyGeoJson' = response.data
              ELSE propertyGeoJson' = Null]_vars

\* C7 witness: one resolution ended with zero features, and the last one to
\* finish returned features, which are the geometry state.
C7_Witness ==
    \E i, j \in 1..Len(reqs) :
        /\ reqs[i].outcome = "noFeatures" /\ reqs[i].bbl \in Bbls
        /\ reqs[j].outcome = "geometry" /\ reqs[j].doneAt > reqs[i].doneAt
        /\ propertyGeoJson = reqs[j].set
        /\ Len(propertyGeoJson.features) >= 1

\* C8: while the lookup of the latest selection is in flight the geometry
\* state is null.
C8_ClearedWhileResolving ==
    (Len(reqs) > 0 /\ ~Settled(reqs[Latest])) => propertyGeoJson = Null

----------------------------------------------------------------------------
(* View and marker properties (SpecView) *)

\* C9: after a map click at p the displayed marker is p, also when an address
\* selection had set the marker, and a parcel resolution for p is started.
C9_ClickIsSelection ==
    [][\A p \in Points :
        handleMapClick(p)
        => /\ displayMarker' = p
           /\ Len(reqs') = Len(reqs) + 1
           /\ reqs'[Len(reqs')].point = p]_vars

\* C10: when an address selection recentred the map while a move event was
\* pending, the visible view state is the recenter's once both are processed.
C10_RecenterWins ==
    (raceRecenter # Null /\ raceRecenter.gestureDone)
    => currentViewState = raceRecenter.view

----------------------------------------------------------------------------
(* Selection and geometry properties (SpecParcel, SpecView) *)

\* the centre of a view state
Centre(view) == [longitude |-> view.longitude, latitude |-> view.latitude]

Quiescent == \A i \in 1..Len(reqs) : Settled(reqs[i])

\* the geometries the parcel-geometry service returns for the lot at p
GeometriesAt(p) == {data \in LotBodies(ParcelAt(p)) : HasFeatures(data)}

\* C23: when no parcel lookup is in flight the geometry state is null or a
\* geometry returned for the lot at the marker, the latest selection
C23_QuiescentConsistency ==
    (Quiescent /\ propertyGeoJson # Null)
    => (markerPosition # Null /\ propertyGeoJson \in GeometriesAt(markerPosition))

\* C24: handling a move event sets the App's view state and the renderer's
\* internal view state to the view of the gesture and leaves the marker,
\* the geometry and the resolutions as they are; so does the gesture that
\* emits the event, which changes none of them
C24_GestureMovesViewOnly ==
    /\ [][handleMove =>
            /\ mapViewState' = pendingMove
            /\ mapViewState' = internalViewState'
            /\ markerPosition' = markerPosition
            /\ propertyGeoJson' = propertyGeoJson
            /\ reqs' = reqs]_vars
    /\ [][\A view \in GestureViews : UserGesture(view) =>
            UNCHANGED <<mapViewState, internalViewState, markerPosition,
                        propertyGeoJson, reqs>>]_vars

\* C24 witness: on a map with a marker and its parcel a gesture was
\* handled: the view is the gesture's, away from the marker
C24_Witness ==
    /\ mapViewState \in GestureViews
    /\ internalViewState = mapViewState
    /\ pendingMove = Null
    /\ markerPosition # Null
    /\ propertyGeoJson # Null
    /\ reqs = <<>>

\* C25: the geometry state is null or a collection with one feature or more
C25_NeverEmptyCollection ==
    propertyGeoJson = Null
    \/ ("features" \in DOMAIN propertyGeoJson /\ Len(propertyGeoJson.features) >= 1)

\* C25 witness: after a geometry was stored, a later lookup was answered
\* with a collection of zero features for a known lot, and null was stored
C25_Witness ==
    \E i, j \in 1..Len(reqs) :
        /\ reqs[j].outcome = "geometry"
        /\ reqs[i].outcome = "noFeatures" /\ reqs[i].bbl \in Bbls
        /\ reqs[i].doneAt > reqs[j].doneAt
        /\ propertyGeoJson = Null

----------------------------------------------------------------------------
(* Conversation session properties (SpecChat) *)

UserTurns(conversation) ==
    Cardinality({k \in 1..Len(conversation) : conversation[k].role = "user"})

\* C3: sends are serialized: at most one assistant request is outstanding,
\* and while the status is "loading" no step (a submit included) issues a
\* request or appends a user turn.
C3_SendsSerialized ==
    /\ [](Len(outstanding) <= 1)
    /\ [][aiStatus = "loading"
          => /\ issued' = issued
             /\ UserTurns(aiConversation') = UserTurns(aiConversation)]_vars

\* C3 witness: a submit ran while a request was outstanding and was turned
\* away (its validation message is set), the request still the only one.
C3_Witness ==
    /\ aiStatus = "loading"
    /\ Len(outstanding) = 1
    /\ aiError = EmptyPromptError
    /\ Len(issued) = 2

----------------------------------------------------------------------------
(* AiCopilotPanel properties (SpecChat, SpecChatFair, SpecHistory) *)

\* the step in which a send is accepted: a request is issued
Accepts == Len(issued') = Len(issued) + 1
\* the step in which the request of a send completes
Completes == Len(outstanding') < Len(outstanding)
AssistantTurns(conversation) ==
    Cardinality({k \in 1..Len(conversation) : conversation[k].role = "assistant"})

\* C11: an accepted send moves the status from idle to loading; the step in
\* which its request completes, with a response or with a failure, leaves
\* the status idle; the status is loading only while a request is
\* outstanding, and when every request completes loading leads to idle
C11_StatusMachine ==
    /\ [][Accepts => aiStatus = "idle" /\ aiStatus' = "loading"]_vars
    /\ [][Completes => aiStatus' = "idle"]_vars
    /\ [](aiStatus = "loading" <=> outstanding # <<>>)
    /\ (aiStatus = "loading" ~> aiStatus = "idle")

\* C11 witness: two sends were accepted, the first answered and the second
\* failed, and the status is idle again
C11_Witness ==
    /\ Len(issued) = 2
    /\ outstanding = <<>>
    /\ AssistantTurns(aiConversation) = 1
    /\ aiError = ErrorMessage(T("Request failed"))
    /\ aiStatus = "idle"

\* the step in which the request of a send fails
Fails ==
    \E k \in 1..Len(outstanding) : \E settlement \in Settlements :
        settlement.kind # "response" /\ Settle(k, settlement)

Blank(text) == \A k \in 1..Len(text) : IsSpace(text[k])

\* the texts a response carries: the text of every output_text item of
\* every output segment, and the entries of a top-level output_text list
CarriedTexts(response) ==
    (IF "output" \in DOMAIN response
     THEN UNION {
            {response.output[i].content[j].text :
                j \in {j \in 1..Len(response.output[i].content) :
                        LET item == response.output[i].content[j] IN
                        /\ "type" \in DOMAIN item /\ item.type = "output_text"
                        /\ "text" \in DOMAIN item}} :
            i \in {i \in 1..Len(response.output) :
                    "content" \in DOMAIN response.output[i]}}
     ELSE {})
    \cup (IF "output_text" \in DOMAIN response
          THEN {response.output_text[i] : i \in 1..Len(response.output_text)}
          ELSE {})

\* C13: every turn of the conversation has content that is not empty (and
\* not blank); a response that carries no text, or blank texts only, appends
\* an assistant turn with the fixed fallback message, any other response
\* appends a turn with text of the response
C13_NoEmptyTurn ==
    /\ [](\A k \in 1..Len(aiConversation) : ~Blank(aiConversation[k].content))
    /\ [][\A k \in 1..Len(outstanding) : \A settlement \in Settlements :
            (settlement.kind = "response" /\ Settle(k, settlement))
            => LET turn == aiConversation'[Len(aiConversation')] IN
               /\ Len(aiConversation') = Len(aiConversation) + 1
               /\ turn.role = "assistant"
               /\ (turn.content = FallbackText)
                    <=> (\A text \in CarriedTexts(settlement.response) : Blank(text))]_vars

\* C13 witness: the send was answered by a response without text and the
\* assistant turn holds the fallback message
C13_Witness ==
    /\ Len(aiConversation) = 2
    /\ aiConversation[1].role = "user"
    /\ aiConversation[2] = Message("assistant", FallbackText)

Min(a, b) == IF a < b THEN a ELSE b

\* a turn as an entry of a request
Entry(turn) ==
    (IF turn.role = "user" THEN T("User") ELSE T("Assistant")) \o T(":\n") \o turn.content

\* the current prompt as the final entry of a request, with the context
\* summary when there is one
PromptEntry(prompt) ==
    LET summary == propertyContextSummary(markerPosition, propertyGeoJson) IN
    T("User:\n") \o prompt
        \o (IF summary = Null THEN <<>> ELSE <<ContextHeader>> \o summary)

\* the request of a send of prompt after the turns prior: the system block,
\* the last 6 turns of prior oldest first, the prompt
WindowedRequest(prior, prompt) ==
    LET n == Min(6, Len(prior))
        entries == <<T("System instructions:\n") \o SYSTEM_PROMPT>>
                   \o [k \in 1..n |-> Entry(prior[Len(prior) - n + k])]
                   \o <<PromptEntry(prompt)>>
    IN Join(entries, T("\n\n"))

\* C14: the request of an accepted send is the system instruction block,
\* then the last 6 of the turns that were in the conversation before the
\* send, oldest first, then the current prompt as the final entry; the
\* prompt is not among the 6 and no older turn is included
C14_HistoryWindow ==
    [][Accepts =>
        /\ issued'[Len(issued')] = WindowedRequest(aiConversation, Trim(aiPrompt))
        /\ outstanding'[Len(outstanding')] = issued'[Len(issued')]]_vars

\* C14 witness: a send was accepted after 8 turns, of which its request
\* replays the last 6
C14_Witness ==
    /\ Len(issued) = 1
    /\ aiStatus = "loading"
    /\ Len(aiConversation) = 9
    /\ issued[1] = WindowedRequest(SubSeq(aiConversation, 3, 8), aiConversation[9].content)

\* how often a token occurs in a text
Count(token, text) == Cardinality({k \in 1..Len(text) : text[k] = token})

\* C15: no turn of the conversation holds a context block; an accepted send
\* stores the trimmed prompt as its user turn, and its request holds the
\* context block once, at its end after the current prompt, when there is
\* a summary and not at all when there is none
C15_ContextOnlyOnCurrentPrompt ==
    /\ [](\A k \in 1..Len(aiConversation) :
            Count(ContextHeader, aiConversation[k].content) = 0)
    /\ [][Accepts =>
            LET summary == propertyContextSummary(markerPosition, propertyGeoJson)
                request == issued'[Len(issued')]
                block == IF summary = Null THEN <<>> ELSE <<ContextHeader>> \o summary
                trimmedPrompt == Trim(aiPrompt)
                tail == trimmedPrompt \o block
            IN /\ aiConversation' = Append(aiConversation, Message("user", trimmedPrompt))
               /\ Count(ContextHeader, request) = Len(SelectSeq(block, LAMBDA t : t = ContextHeader))
               /\ Len(request) > Len(tail)
               /\ SubSeq(request, Len(request) - Len(tail) + 1, Len(request)) = tail]_vars

\* C15 witness: with a marker set, a second send was accepted; its request
\* replays the first user turn and holds one context block
C15_Witness ==
    /\ markerPosition # Null
    /\ Len(issued) = 2
    /\ Len(aiConversation) >= 2
    /\ Count(ContextHeader, issued[1]) = 1
    /\ Count(ContextHeader, issued[2]) = 1
    /\ Len(issued[2]) > Len(issued[1])

\* C16: a reset happens from idle and leaves the conversation empty, the
\* prompt empty and the error cleared; while a request is outstanding the
\* conversation is the turns the request was built from followed by the
\* user turn of its send, so the reply is appended to those turns and never
\* to a conversation cleared in the meantime
C16_ResetOnlyFromIdle ==
    /\ [][handleClearConversation =>
            /\ aiStatus = "idle" /\ outstanding = <<>>
            /\ aiConversation' = <<>> /\ aiPrompt' = <<>> /\ aiError' = Null
            /\ aiStatus' = "idle"]_vars
    /\ [](outstanding # <<>> =>
            /\ Len(aiConversation) >= 1
            /\ outstanding[1] =
                 WindowedRequest(SubSeq(aiConversation, 1, Len(aiConversation) - 1),
                                 aiConversation[Len(aiConversation)].content))
    /\ [][Completes /\ aiConversation' # aiConversation =>
            /\ aiConversation # <<>>
            /\ SubSeq(aiConversation', 1, Len(aiConversation)) = aiConversation
            /\ aiConversation[Len(aiConversation)].role = "user"
            /\ aiConversation'[Len(aiConversation')].role = "assistant"]_vars

\* C16 witness: a send was accepted and has completed, and the conversation
\* has been reset since
C16_Witness ==
    /\ Len(issued) = 1
    /\ outstanding = <<>>
    /\ aiStatus = "idle"
    /\ aiConversation = <<>>
    /\ aiPrompt = <<>>
    /\ aiError = Null

\* C17: a send whose prompt is empty or blank issues no request: it sets
\* the "Please enter a prompt." message and leaves the conversation, the
\* status, the prompt and the requests as they are; at idle the status
\* stays idle, and no request is ever issued for a blank prompt
C17_EmptyPromptRejected ==
    /\ [][runOpenAiQuery /\ Blank(aiPrompt) =>
            /\ aiError' = EmptyPromptError
            /\ aiConversation' = aiConversation
            /\ aiStatus' = aiStatus
            /\ aiPrompt' = aiPrompt
            /\ issued' = issued
            /\ outstanding' = outstanding]_vars
    /\ [][Accepts => ~Blank(aiPrompt)]_vars

\* C17 witness: a blank prompt was sent at idle in a fresh panel: the
\* message is set and nothing else has happened
C17_Witness ==
    /\ aiPrompt = T(" ")
    /\ aiError = EmptyPromptError
    /\ aiStatus = "idle"
    /\ aiConversation = <<>>
    /\ issued = <<>>

\* C18: with no API key a send of a prompt that is not blank sets the
\* missing-key message and leaves the conversation, the status, the prompt
\* and the requests as they are; with no key no request is ever issued, no
\* turn stored, and the status is idle
C18_MissingKeyDegrades ==
    /\ [][runOpenAiQuery /\ ~Blank(aiPrompt) /\ ~apiKey =>
            /\ aiError' = MissingKeyError
            /\ aiConversation' = aiConversation
            /\ aiStatus' = aiStatus
            /\ aiPrompt' = aiPrompt
            /\ issued' = issued
            /\ outstanding' = outstanding]_vars
    /\ [](~apiKey =>
            /\ issued = <<>> /\ outstanding = <<>>
            /\ aiConversation = <<>>
            /\ aiStatus = "idle")

\* C18 witness: with no key a prompt was sent: the missing-key message is
\* set and the prompt is still in the textarea
C18_Witness ==
    /\ ~apiKey
    /\ aiError = MissingKeyError
    /\ ~Blank(aiPrompt)
    /\ aiStatus = "idle"
    /\ aiConversation = <<>>

\* the panel has a geometry with at least one feature
Featured == propertyGeoJson # Null /\ Len(propertyGeoJson.features) >= 1

\* the leading texts of the geometry pieces of a summary
GeometryLabels ==
    {Str("Property geometry type: "), Str("Feature count: "), Str("Key parcel data -> ")}

\* C19: the summary is null exactly when there is no marker and no
\* geometry with a feature, and otherwise a text that is not empty; with a
\* marker and no such geometry it holds the two coordinates to 6 decimals
\* and no geometry type, feature count or attribute piece; the request of
\* a send made with a null summary ends with the bare prompt and holds no
\* context block
C19_SummaryPresence ==
    /\ [](LET summary == propertyContextSummary(markerPosition, propertyGeoJson) IN
          /\ (summary = Null) <=> (markerPosition = Null /\ ~Featured)
          /\ IF summary = Null THEN TRUE ELSE Len(summary) > 0
          /\ (markerPosition # Null /\ ~Featured) =>
                /\ Count(ToFixed(markerPosition.latitude, 6), summary) = 1
                /\ Count(ToFixed(markerPosition.longitude, 6), summary) = 1
                /\ \A label \in GeometryLabels : Count(label, summary) = 0)
    /\ [][(Accepts /\ markerPosition = Null /\ ~Featured) =>
            LET request == issued'[Len(issued')]
                entry == T("User:\n") \o Trim(aiPrompt)
            IN /\ Count(ContextHeader, request) = 0
               /\ Len(request) > Len(entry)
               /\ SubSeq(request, Len(request) - Len(entry) + 1, Len(request)) = entry]_vars

\* C19 witness: with no marker and no geometry a send was accepted, and its
\* request holds no context block
C19_Witness ==
    /\ markerPosition = Null
    /\ propertyGeoJson = Null
    /\ Len(issued) = 1
    /\ Count(ContextHeader, issued[1]) = 0

\* the positions of the attributes of props whose value is a string or a number
Scalars(props) == {i \in 1..Len(props) : props[i].value.t \in {"string", "number"}}
\* the position of the k-th scalar attribute of props
NthScalar(props, k) ==
    CHOOSE i \in Scalars(props) : Cardinality({j \in Scalars(props) : j <= i}) = k
\* the first 6 scalar attributes of props as "key: value", in attribute order
ListedPairs(props) ==
    [k \in 1..Min(6, Cardinality(Scalars(props))) |->
        LET attr == props[NthScalar(props, k)] IN
        <<Str(attr.key), Str(": "), Str(attr.value.v)>>]
\* text occurs in whole at position i of within
OccursAt(text, within, i) ==
    i + Len(text) - 1 <= Len(within) /\ SubSeq(within, i, i + Len(text) - 1) = text
Occurs(text, within) == \E i \in 1..Len(within) : OccursAt(text, within, i)
\* the keys of the attributes of the features at the positions in which
AttrKeys(features, which) ==
    UNION {{features[f].properties[i].key : i \in 1..Len(features[f].properties)} :
            f \in which}

\* C20: for a geometry with features the summary holds the geometry type
\* of the first feature, the number of features, and as its last piece the
\* first 6 string or number attributes of the first feature in attribute
\* order; it holds no other attribute: none that is not a string or a
\* number, no scalar one after the sixth, and none of another feature
C20_AttributeSelection ==
    [](Featured =>
        LET summary == propertyContextSummary(markerPosition, propertyGeoJson)
            features == propertyGeoJson.features
            props == features[1].properties
            listed == ListedPairs(props)
            piece == <<Str("Key parcel data -> ")>> \o Join(listed, T(", "))
            listedKeys == {listed[k][1].s : k \in 1..Len(listed)}
        IN /\ Occurs(<<Str("Property geometry type: "), Str(features[1].geometry.type), Str(".")>>,
                     summary)
           /\ Occurs(<<Str("Feature count: "), ToFixed(Len(features), 0), Str(".")>>, summary)
           /\ Len(listed) <= 6
           /\ OccursAt(piece, summary, Len(summary) - Len(piece) + 1)
           /\ Count(Str(": "), summary) = Len(listed)
           /\ \A key \in AttrKeys(features, 1..Len(features)) \ listedKeys :
                    Count(Str(key), summary) = 0)

\* C20 witness: the geometry has two features, the first with 8 scalar
\* attributes and others between them; the request of a send lists the
\* sixth scalar attribute and not the seventh
C20_Witness ==
    /\ Featured
    /\ Len(propertyGeoJson.features) = 2
    /\ Cardinality(Scalars(propertyGeoJson.features[1].properties)) = 8
    /\ Len(issued) = 1
    /\ Occurs(<<Str("Key parcel data -> "), Str("BBL")>>, issued[1])
    /\ Count(Str("YearBuilt"), issued[1]) = 1
    /\ Count(Str("OwnerName"), issued[1]) = 0

\* the step in which the request of a send is answered
Answered ==
    \E k \in 1..Len(outstanding) : \E settlement \in Settlements :
        settlement.kind = "response" /\ Settle(k, settlement)

\* the roles of the turns of a conversation, in order
Roles(conversation) == [k \in 1..Len(conversation) |-> conversation[k].role]

\* C21: a step other than a reset leaves the turns of the conversation in
\* place and adds at most one turn, at the end; an accepted send adds its
\* user turn, nothing is added while its request is outstanding, and the
\* answer adds the assistant turn right after that user turn, so an
\* answered send has added two turns, and the first one to an empty
\* conversation leaves [user, assistant]
C21_AppendOnly ==
    /\ [][\/ handleClearConversation
          \/ aiConversation' = aiConversation
          \/ /\ Len(aiConversation') = Len(aiConversation) + 1
             /\ SubSeq(aiConversation', 1, Len(aiConversation)) = aiConversation]_vars
    /\ [][Accepts =>
            /\ Len(aiConversation') = Len(aiConversation) + 1
            /\ aiConversation'[Len(aiConversation')] = Message("user", Trim(aiPrompt))]_vars
    /\ [][(outstanding # <<>> /\ outstanding' # <<>>) =>
            aiConversation' = aiConversation]_vars
    /\ [][Answered =>
            /\ Len(aiConversation') = Len(aiConversation) + 1
            /\ aiConversation[Len(aiConversation)].role = "user"
            /\ aiConversation'[Len(aiConversation')].role = "assistant"
            /\ (Len(aiConversation) = 1 => Roles(aiConversation') = <<"user", "assistant">>)]_vars

\* C21 witness: two sends were answered one after the other and the
\* conversation holds their four turns in order
C21_Witness ==
    /\ Len(issued) = 2
    /\ outstanding = <<>>
    /\ Roles(aiConversation) = <<"user", "assistant", "user", "assistant">>
    /\ aiConversation[1].content # aiConversation[3].content

====
